---- MODULE Spec2Model ----
(***************************************************************************)
(* Model of the FORS33 circuit library (src/fors33/circuits.py): the two   *)
(* builders of the distance-3 repetition-code circuit, build_velocity_     *)
(* circuit (line topology, 700dt) and build_endurance_circuit (star        *)
(* topology, variable delay), and the execution of the circuit they build  *)
(* on computational-basis values with bit flips injected in the delay      *)
(* window.                                                                 *)
(***************************************************************************)
EXTENDS Integers, Sequences, FiniteSets, TLC

(* ------------------------------ bounds -------------------------------- *)

\* Largest small delay_dt tried besides the documented 700 and 1000.
MaxDelay == 3

(* ------------------------- program constants -------------------------- *)

\* QuantumRegister(3, 'data') / ClassicalRegister(3, 'out')
NumData == 3
\* QuantumRegister(2, 'anc') / ClassicalRegister(2, 'syn')
NumAncilla == 2
\* qc.delay(700, ...) of the velocity circuit
VelocityDelay == 700
\* qc.delay(350, ...) of the velocity circuit with decoupling
VelocityHalf == 350
\* default of build_endurance_circuit's delay_dt
DefaultDelay == 1000

DataQubits == 0 .. (NumData - 1)
AncQubits == 0 .. (NumAncilla - 1)

\* delay_dt values tried: one negative, small even and odd ones, 700, 1000
DelayValues == ((-1) .. MaxDelay) \cup {VelocityDelay, DefaultDelay}

(* ------------------------- circuit operations ------------------------- *)

\* An appended instruction; unused fields keep these defaults.
BlankOp ==
  [kind |-> "", ctl |-> -1, reg |-> "", q |-> -1, dur |-> 0,
   cond |-> -1, creg |-> "", label |-> ""]

\* qc.x(q_data[q])
XGate(q) == [BlankOp EXCEPT !.kind = "x", !.reg = "data", !.q = q]

\* qc.cx(q_data[c], reg[t])
CXGate(c, treg, t) ==
  [BlankOp EXCEPT !.kind = "cx", !.ctl = c, !.reg = treg, !.q = t]

\* qc.delay(dur, q_data[q], unit='dt')
DelayOp(dur, q) ==
  [BlankOp EXCEPT !.kind = "delay", !.reg = "data", !.q = q, !.dur = dur]

\* one measurement: qubit q of register reg into bit q of creg
MeasureOp(reg, q, creg) ==
  [BlankOp EXCEPT !.kind = "measure", !.reg = reg, !.q = q, !.creg = creg]

\* qc.measure(register, classical register): one measurement per qubit,
\* qubit i into bit i
MeasureReg(reg, n, creg) == [i \in 1 .. n |-> MeasureOp(reg, i - 1, creg)]

\* with qc.if_test((c_syndrome, val)): qc.x(q_data[q])
IfTestX(val, q) ==
  [BlankOp EXCEPT !.kind = "if_test", !.cond = val, !.reg = "data", !.q = q]

\* qc.barrier(label=label)
Barrier(label) == [BlankOp EXCEPT !.kind = "barrier", !.label = label]

\* variant of DelayLabel: the unit suffix left out
DelayLabelNoUnit(delay_dt) == "DELAY_" \o ToString(delay_dt)

\* f"DELAY_{delay_dt}dt"
DelayLabel(delay_dt) == "DELAY_" \o ToString(delay_dt) \o "dt"

(* ------------------------------ phases -------------------------------- *)

\* PHASE 1 and 2: logical |1> on data[0], copied into data[1], data[2]
InitEncode ==
  << XGate(0), Barrier("INIT"),
     CXGate(0, "data", 1), CXGate(0, "data", 2), Barrier("ENCODE") >>

\* variant of DDSequence: the closing X ("flip back") left out
DDSequenceOneFlip(h, q) == << DelayOp(h, q), XGate(q), DelayOp(h, q) >>

\* body of "for qubit in q_data" of the decoupling branch, both delays h
DDSequence(h, q) == << DelayOp(h, q), XGate(q), DelayOp(h, q), XGate(q) >>

\* the decoupling loop over the three data qubits
DDLoop(h) == DDSequence(h, 0) \o DDSequence(h, 1) \o DDSequence(h, 2)

\* the passive branch: one delay per data qubit
PassiveDelay(d) == << DelayOp(d, 0), DelayOp(d, 1), DelayOp(d, 2) >>

\* PHASE 3 of build_velocity_circuit
VelocityScheduler(use_dd) ==
  (IF use_dd THEN DDLoop(VelocityHalf) ELSE PassiveDelay(VelocityDelay))
    \o << Barrier("DELAY_700dt") >>

\* PHASE 3 of build_endurance_circuit; half_delay = delay_dt // 2
EnduranceScheduler(use_dd, delay_dt) ==
  (IF use_dd THEN DDLoop(delay_dt \div 2) ELSE PassiveDelay(delay_dt))
    \o << Barrier(DelayLabel(delay_dt)) >>

\* variant of Extractor: ancilla 0 reads data[0] alone, not a parity
ExtractorSingleCheck ==
  << CXGate(0, "anc", 0), CXGate(1, "anc", 1), CXGate(2, "anc", 1) >>
    \o MeasureReg("anc", NumAncilla, "syn")
    \o << Barrier("SYNDROME") >>

\* PHASE 4: parity checks into the ancillas, ancilla measurement
Extractor ==
  << CXGate(0, "anc", 0), CXGate(1, "anc", 0),
     CXGate(1, "anc", 1), CXGate(2, "anc", 1) >>
    \o MeasureReg("anc", NumAncilla, "syn")
    \o << Barrier("SYNDROME") >>

\* variant of Corrector: the syndrome-3 (middle qubit) gate left out
CorrectorNoMiddle ==
  << IfTestX(1, 0), IfTestX(2, 2), Barrier("CORRECTION") >>

\* variant of Corrector: the targets of syndromes 3 and 1 exchanged
CorrectorSwapped ==
  << IfTestX(3, 0), IfTestX(1, 1), IfTestX(2, 2), Barrier("CORRECTION") >>

\* PHASE 5: the three syndrome-conditioned X gates
Corrector ==
  << IfTestX(3, 1), IfTestX(1, 0), IfTestX(2, 2), Barrier("CORRECTION") >>

\* variant of Readout: as many measurements as the syndrome register has
ReadoutShort == MeasureReg("data", NumAncilla, "out")

\* PHASE 6
Readout == MeasureReg("data", NumData, "out")

\* variant of VelocityTail: the corrections appended before the extraction
VelocityTailCorrectFirst == Corrector \o Extractor \o Readout

\* phases 4 to 6 of build_velocity_circuit
VelocityTail == Extractor \o Corrector \o Readout

\* phases 4 to 6 of build_endurance_circuit
EnduranceTail == Extractor \o Corrector \o Readout

\* the operation sequence of build_velocity_circuit(use_dd)
VelocityOps(use_dd) ==
  InitEncode \o VelocityScheduler(use_dd) \o VelocityTail

\* the operation sequence of build_endurance_circuit(use_dd, delay_dt)
EnduranceOps(use_dd, delay_dt) ==
  InitEncode \o EnduranceScheduler(use_dd, delay_dt) \o EnduranceTail

(* ----------------------- locating the phases ------------------------- *)

RECURSIVE BarrierIndex(_, _, _)
\* index in circ of the first barrier labelled label at or after i, 0 if none
BarrierIndex(circ, label, i) ==
  IF i > Len(circ) THEN 0
  ELSE IF circ[i].kind = "barrier" /\ circ[i].label = label THEN i
  ELSE BarrierIndex(circ, label, i + 1)

\* the barrier closing PHASE 2
EncodeBarrier(circ) == BarrierIndex(circ, "ENCODE", 1)

\* the barrier closing PHASE 3: the first barrier after the ENCODE one
RECURSIVE NextBarrier(_, _)
NextBarrier(circ, i) ==
  IF i > Len(circ) THEN 0
  ELSE IF circ[i].kind = "barrier" THEN i
  ELSE NextBarrier(circ, i + 1)

DelayBarrier(circ) == NextBarrier(circ, EncodeBarrier(circ) + 1)

\* the barrier closing PHASE 4
SyndromeBarrier(circ) == BarrierIndex(circ, "SYNDROME", 1)

(* ---------------------- semantics of one operation -------------------- *)

\* registers of one run: qubit values in the computational basis and the
\* two classical registers (all |0> / 0 at the start of a circuit)
FreshRegs ==
  [data |-> [q \in DataQubits |-> 0], anc |-> [a \in AncQubits |-> 0],
   syn |-> [a \in AncQubits |-> 0], out |-> [q \in DataQubits |-> 0]]

Xor(a, b) == (a + b) % 2

\* the integer value of the syndrome register (bit 0 least significant)
SynValue(r) == r.syn[0] + 2 * r.syn[1]

\* x on a data qubit
ApplyX(r, op) == [r EXCEPT !.data[op.q] = 1 - @]

\* cx from a data qubit into a data or ancilla qubit
ApplyCX(r, op) ==
  IF op.reg = "data"
  THEN [r EXCEPT !.data[op.q] = Xor(@, r.data[op.ctl])]
  ELSE [r EXCEPT !.anc[op.q] = Xor(@, r.data[op.ctl])]

\* measurement of a basis state: the bit takes the qubit's value
ApplyMeasure(r, op) ==
  IF op.creg = "syn"
  THEN [r EXCEPT !.syn[op.q] = r.anc[op.q]]
  ELSE [r EXCEPT !.out[op.q] = r.data[op.q]]

\* variant of IfTestFires: the condition bits tested as a mask
IfTestFiresMask(r, op) ==
  /\ SynValue(r) # 0
  /\ \A a \in AncQubits :
       ((op.cond \div (2 ^ a)) % 2 = 1) => r.syn[a] = 1

\* if_test((c_syndrome, cond)): the body runs iff the register equals cond
IfTestFires(r, op) == SynValue(r) = op.cond

ApplyIfTest(r, op) == IF IfTestFires(r, op) THEN ApplyX(r, op) ELSE r

(* ------------------------------ state --------------------------------- *)

VARIABLES
  cfg,      \* the call: [topology, use_dd, delay_dt]
  result,   \* "none" | "circuit" | "CircuitError"
  ops,      \* the circuit returned by the builder
  pc,       \* index of the next operation of ops to execute
  regs,     \* registers of the run
  written,  \* classical bits written so far, as <<creg, bit>>
  fired,    \* the if_test operations whose body ran, in order
  elapsed,  \* per data qubit, the sum of the delays executed on it
  flips,    \* data qubits flipped by noise in the delay window
  phase,    \* "whole" for a run of the circuit, or the phase run alone
  entry,    \* data values at the start of the run
  twin      \* registers of the paired run with the complemented logical bit

vars ==
  << cfg, result, ops, pc, regs, written, fired, elapsed, flips,
     phase, entry, twin >>

NoCall == [topology |-> "none", use_dd |-> FALSE, delay_dt |-> 0]

Init ==
  /\ cfg = NoCall
  /\ result = "none"
  /\ ops = << >>
  /\ pc = 1
  /\ regs = FreshRegs
  /\ written = {}
  /\ fired = << >>
  /\ elapsed = [q \in DataQubits |-> 0]
  /\ flips = {}
  /\ phase = "whole"
  /\ entry = FreshRegs.data
  /\ twin = FreshRegs

(* ----------------------------- builders ------------------------------- *)

\* The builders do not check delay_dt; every duration goes to qc.delay.
\* qiskit (setup.py: qiskit>=1.0.0) is not part of the repository: whether
\* its Delay accepts a negative duration or raises its own CircuitError is
\* left open here.
DelayOutcomes(circ) ==
  IF \E i \in 1 .. Len(circ) : circ[i].kind = "delay" /\ circ[i].dur < 0
  THEN {"circuit", "CircuitError"}
  ELSE {"circuit"}

Returned(call, circ, outcome) ==
  /\ result = "none"
  /\ outcome \in DelayOutcomes(circ)
  /\ cfg' = call
  /\ result' = outcome
  /\ ops' = IF outcome = "circuit" THEN circ ELSE << >>
  /\ UNCHANGED << pc, regs, written, fired, elapsed, flips, phase, entry,
                  twin >>

\* build_velocity_circuit(use_dd)
BuildVelocity ==
  \E use_dd \in BOOLEAN, outcome \in {"circuit", "CircuitError"} :
    Returned([topology |-> "line", use_dd |-> use_dd,
              delay_dt |-> VelocityDelay],
             VelocityOps(use_dd), outcome)

\* build_endurance_circuit(use_dd, delay_dt)
BuildEndurance ==
  \E use_dd \in BOOLEAN, delay_dt \in DelayValues,
     outcome \in {"circuit", "CircuitError"} :
    Returned([topology |-> "star", use_dd |-> use_dd,
              delay_dt |-> delay_dt],
             EnduranceOps(use_dd, delay_dt), outcome)

(* ------------------------ running the circuit ------------------------- *)

Running == result = "circuit" /\ pc <= Len(ops)

Done == result = "circuit" /\ pc = Len(ops) + 1

AtKind(k) == Running /\ ops[pc].kind = k

ExecX ==
  /\ phase = "whole" /\ AtKind("x")
  /\ regs' = ApplyX(regs, ops[pc])
  /\ pc' = pc + 1
  /\ UNCHANGED << cfg, result, ops, written, fired, elapsed, flips, phase,
                  entry, twin >>

ExecCX ==
  /\ phase = "whole" /\ AtKind("cx")
  /\ regs' = ApplyCX(regs, ops[pc])
  /\ pc' = pc + 1
  /\ UNCHANGED << cfg, result, ops, written, fired, elapsed, flips, phase,
                  entry, twin >>

ExecDelay ==
  /\ phase = "whole" /\ AtKind("delay")
  /\ elapsed' = [elapsed EXCEPT ![ops[pc].q] = @ + ops[pc].dur]
  /\ pc' = pc + 1
  /\ UNCHANGED << cfg, result, ops, regs, written, fired, flips, phase,
                  entry, twin >>

ExecMeasure ==
  /\ phase = "whole" /\ AtKind("measure")
  /\ regs' = ApplyMeasure(regs, ops[pc])
  /\ written' = written \cup {<< ops[pc].creg, ops[pc].q >>}
  /\ pc' = pc + 1
  /\ UNCHANGED << cfg, result, ops, fired, elapsed, flips, phase, entry,
                  twin >>

ExecIfTest ==
  /\ phase = "whole" /\ AtKind("if_test")
  /\ regs' = ApplyIfTest(regs, ops[pc])
  /\ fired' = IF IfTestFires(regs, ops[pc])
              THEN Append(fired, ops[pc]) ELSE fired
  /\ pc' = pc + 1
  /\ UNCHANGED << cfg, result, ops, written, elapsed, flips, phase, entry,
                  twin >>

ExecBarrier ==
  /\ phase = "whole" /\ AtKind("barrier")
  /\ pc' = pc + 1
  /\ UNCHANGED << cfg, result, ops, regs, written, fired, elapsed, flips,
                  phase, entry, twin >>

\* the delay window: the ENCODE barrier has run, the DELAY one has not
InWindow ==
  /\ Running
  /\ pc > EncodeBarrier(ops)
  /\ pc <= DelayBarrier(ops)

\* noise: a bit flip of one data qubit, at most once per qubit
InjectFlip ==
  /\ phase = "whole" /\ InWindow
  /\ \E q \in DataQubits \ flips :
       /\ regs' = [regs EXCEPT !.data[q] = 1 - @]
       /\ flips' = flips \cup {q}
  /\ UNCHANGED << cfg, result, ops, pc, written, fired, elapsed, phase,
                  entry, twin >>

Next ==
  \/ BuildVelocity
  \/ BuildEndurance
  \/ ExecX
  \/ ExecCX
  \/ ExecDelay
  \/ ExecMeasure
  \/ ExecIfTest
  \/ ExecBarrier
  \/ InjectFlip

Spec == Init /\ [][Next]_vars

(* ----------------- one phase run alone, on any input ----------------- *)
(* PHASE 3 or PHASE 4 of a built circuit, started on data qubits holding   *)
(* the logical bit b with the qubits of F complemented, the ancillas       *)
(* fresh; the twin run starts from the other logical bit with the same F.  *)

PhaseStart(circ, ph) ==
  IF ph = "scheduler" THEN EncodeBarrier(circ) + 1 ELSE DelayBarrier(circ) + 1

PhaseEnd(circ, ph) ==
  IF ph = "scheduler" THEN DelayBarrier(circ) ELSE SyndromeBarrier(circ)

\* data values: logical bit b, the qubits of F complemented
Encoded(b, F) == [q \in DataQubits |-> IF q \in F THEN 1 - b ELSE b]

Calls ==
  {[topology |-> "line", use_dd |-> dd, delay_dt |-> VelocityDelay] :
     dd \in BOOLEAN}
    \cup {[topology |-> "star", use_dd |-> dd, delay_dt |-> d] :
            dd \in BOOLEAN, d \in DelayValues}

\* the circuit a call builds
Built(call) ==
  IF call.topology = "line" THEN VelocityOps(call.use_dd)
  ELSE EnduranceOps(call.use_dd, call.delay_dt)

PhaseInit ==
  \E call \in Calls, ph \in {"scheduler", "extractor"}, b \in 0 .. 1,
     F \in SUBSET DataQubits :
    /\ cfg = call
    /\ result = "circuit"
    /\ ops = Built(call)
    /\ phase = ph
    /\ pc = PhaseStart(Built(call), ph)
    /\ regs = [FreshRegs EXCEPT !.data = Encoded(b, F)]
    /\ twin = [FreshRegs EXCEPT !.data = Encoded(1 - b, F)]
    /\ entry = Encoded(b, F)
    /\ flips = F
    /\ written = {}
    /\ fired = << >>
    /\ elapsed = [q \in DataQubits |-> 0]

InPhase(k) ==
  /\ phase # "whole"
  /\ pc <= PhaseEnd(ops, phase)
  /\ ops[pc].kind = k

PhaseDone == phase # "whole" /\ pc = PhaseEnd(ops, phase) + 1

PhaseX ==
  /\ InPhase("x")
  /\ regs' = ApplyX(regs, ops[pc])
  /\ twin' = ApplyX(twin, ops[pc])
  /\ pc' = pc + 1
  /\ UNCHANGED << cfg, result, ops, written, fired, elapsed, flips, phase,
                  entry >>

PhaseCX ==
  /\ InPhase("cx")
  /\ regs' = ApplyCX(regs, ops[pc])
  /\ twin' = ApplyCX(twin, ops[pc])
  /\ pc' = pc + 1
  /\ UNCHANGED << cfg, result, ops, written, fired, elapsed, flips, phase,
                  entry >>

PhaseDelay ==
  /\ InPhase("delay")
  /\ elapsed' = [elapsed EXCEPT ![ops[pc].q] = @ + ops[pc].dur]
  /\ pc' = pc + 1
  /\ UNCHANGED << cfg, result, ops, regs, twin, written, fired, flips,
                  phase, entry >>

PhaseMeasure ==
  /\ InPhase("measure")
  /\ regs' = ApplyMeasure(regs, ops[pc])
  /\ twin' = ApplyMeasure(twin, ops[pc])
  /\ written' = written \cup {<< ops[pc].creg, ops[pc].q >>}
  /\ pc' = pc + 1
  /\ UNCHANGED << cfg, result, ops, fired, elapsed, flips, phase, entry >>

PhaseBarrier ==
  /\ InPhase("barrier")
  /\ pc' = pc + 1
  /\ UNCHANGED << cfg, result, ops, regs, twin, written, fired, elapsed,
                  flips, phase, entry >>

PhaseNext ==
  \/ PhaseX
  \/ PhaseCX
  \/ PhaseDelay
  \/ PhaseMeasure
  \/ PhaseBarrier

PhaseSpec == PhaseInit /\ [][PhaseNext]_vars

(* ------------------------------ claims -------------------------------- *)

AllOnes == [q \in DataQubits |-> 1]

SynBits == {<< "syn", a >> : a \in AncQubits}

\* data qubits on which a fired if_test applied its X
CorrectedQubits == {fired[i].q : i \in 1 .. Len(fired)}

IsSynMeasure(op) == op.kind = "measure" /\ op.creg = "syn"

IsOutMeasure(op) == op.kind = "measure" /\ op.creg = "out"

\* op acts on data qubit q (as target, control or measured qubit)
TouchesData(op, q) ==
  \/ op.kind \in {"x", "delay", "if_test"} /\ op.q = q
  \/ op.kind = "cx" /\ (op.ctl = q \/ (op.reg = "data" /\ op.q = q))
  \/ op.kind = "measure" /\ op.reg = "data" /\ op.q = q

Positions(circ, Test(_)) == {i \in 1 .. Len(circ) : Test(circ[i])}

\* C1: with no flip or a flip of exactly one data qubit injected in the
\* delay window, the corrector applies its X to exactly the flipped qubit
\* (to none when nothing flipped) and the readout finds all three data
\* qubits at the encoded value 1.
SingleFlipCorrected ==
  (phase = "whole" /\ Done /\ Cardinality(flips) <= 1) =>
    /\ CorrectedQubits = flips
    /\ Len(fired) = Cardinality(flips)
    /\ regs.data = AllOnes
    /\ regs.out = AllOnes

\* C1 witness: a finished run in which data qubit 1 was flipped and the
\* syndrome-3 correction put it back.
SingleFlipCorrectedWitness ==
  /\ phase = "whole" /\ Done
  /\ flips = {1}
  /\ SynValue(regs) = 3
  /\ CorrectedQubits = {1}
  /\ regs.out = AllOnes

\* C2 (as claimed): for every delay_dt >= 0, with and without decoupling,
\* once the delay window is over the delays executed on each data qubit sum
\* to delay_dt.
TotalDelayEqualsDuration ==
  (phase = "whole" /\ result = "circuit" /\ cfg.delay_dt >= 0
     /\ pc > DelayBarrier(ops)) =>
    \A q \in DataQubits : elapsed[q] = cfg.delay_dt

\* C3: in a built circuit both ancilla measurements precede every
\* syndrome-conditioned X, every syndrome-conditioned X precedes every
\* final data measurement, and nothing acts on a data qubit after its
\* final measurement; in a run, an if_test reads the syndrome register
\* only once both of its bits are written.
MeasureCorrectReadoutOrder ==
  (phase = "whole" /\ result = "circuit") =>
    /\ Cardinality(Positions(ops, IsSynMeasure)) = NumAncilla
    /\ Cardinality(Positions(ops, IsOutMeasure)) = NumData
    /\ Cardinality(Positions(ops, LAMBDA o : o.kind = "if_test")) = 3
    /\ \A i, j \in 1 .. Len(ops) :
         /\ (IsSynMeasure(ops[i]) /\ ops[j].kind = "if_test") => i < j
         /\ (ops[i].kind = "if_test" /\ IsOutMeasure(ops[j])) => i < j
         /\ (IsOutMeasure(ops[i]) /\ i < j) => ~TouchesData(ops[j], ops[i].q)
    /\ (Running /\ ops[pc].kind = "if_test") => SynBits \subseteq written
    /\ (Running /\ IsOutMeasure(ops[pc])) =>
         \A i \in Positions(ops, LAMBDA o : o.kind = "if_test") : i < pc

\* C3 witness: a run about to execute its first if_test, both syndrome
\* bits written and no output bit written yet.
MeasureCorrectReadoutOrderWitness ==
  /\ phase = "whole" /\ Running
  /\ ops[pc].kind = "if_test" /\ ops[pc].cond = 3
  /\ written = SynBits

\* C4: in any run, at most one of the three syndrome-conditioned X gates
\* fires, and none fires when the measured syndrome is 0.
AtMostOneCorrectionFires ==
  phase = "whole" =>
    /\ Len(fired) <= 1
    /\ (SynBits \subseteq written /\ SynValue(regs) = 0) => fired = << >>
    /\ \A i \in 1 .. Len(fired) : fired[i].cond = SynValue(regs)

\* C4 witness: a finished run with syndrome 3 (data qubit 1 flipped, or
\* qubits 0 and 2 flipped) in which exactly the syn == 3 gate fired.
AtMostOneCorrectionFiresWitness ==
  /\ phase = "whole" /\ Done
  /\ SynValue(regs) = 3
  /\ Len(fired) = 1 /\ fired[1].cond = 3

\* C5 (as claimed): a call with a negative delay_dt fails with InvalidDelay
\* and returns no circuit.
NegativeDelayIsInvalidDelay ==
  (result # "none" /\ cfg.delay_dt < 0) =>
    (result = "InvalidDelay" /\ ops = << >>)

\* <<kind, control, target register, target>> of an operation
Shape(op) == << op.kind, op.ctl, op.reg, op.q >>

NonBarriers(circ) == SelectSeq(circ, LAMBDA o : o.kind # "barrier")

\* the 27 operations of the line circuit with decoupling, in order
Line27 ==
  << << "x", -1, "data", 0 >>,
     << "cx", 0, "data", 1 >>, << "cx", 0, "data", 2 >>,
     << "delay", -1, "data", 0 >>, << "x", -1, "data", 0 >>,
     << "delay", -1, "data", 0 >>, << "x", -1, "data", 0 >>,
     << "delay", -1, "data", 1 >>, << "x", -1, "data", 1 >>,
     << "delay", -1, "data", 1 >>, << "x", -1, "data", 1 >>,
     << "delay", -1, "data", 2 >>, << "x", -1, "data", 2 >>,
     << "delay", -1, "data", 2 >>, << "x", -1, "data", 2 >>,
     << "cx", 0, "anc", 0 >>, << "cx", 1, "anc", 0 >>,
     << "cx", 1, "anc", 1 >>, << "cx", 2, "anc", 1 >>,
     << "measure", -1, "anc", 0 >>, << "measure", -1, "anc", 1 >>,
     << "if_test", -1, "data", 1 >>, << "if_test", -1, "data", 0 >>,
     << "if_test", -1, "data", 2 >>,
     << "measure", -1, "data", 0 >>, << "measure", -1, "data", 1 >>,
     << "measure", -1, "data", 2 >> >>

\* C7: not counting barriers, build_velocity_circuit(use_dd=True) is
\* exactly 27 operations: 3 init/encode, 12 scheduler (delay, X, delay, X
\* per data qubit), 4 parity-check CX, 2 ancilla measurements, 3
\* syndrome-conditioned X, 3 final measurements, in this order.
LineDecoupled27Operations ==
  (phase = "whole" /\ result = "circuit" /\ cfg.topology = "line"
     /\ cfg.use_dd) =>
    /\ Len(NonBarriers(ops)) = 27
    /\ [i \in 1 .. Len(NonBarriers(ops)) |-> Shape(NonBarriers(ops)[i])]
         = Line27
    /\ \A i \in 1 .. Len(ops) :
         ops[i].kind = "delay" => ops[i].dur * 2 = cfg.delay_dt

\* C7 witness: the line circuit with decoupling has been built and run to
\* its end, 27 operations and 5 barriers executed.
LineDecoupled27OperationsWitness ==
  /\ phase = "whole" /\ Done
  /\ cfg.topology = "line" /\ cfg.use_dd
  /\ pc = 27 + 5 + 1

\* the operations of the scheduler phase of circ
SchedulerSlice(circ) ==
  SubSeq(circ, EncodeBarrier(circ) + 1, DelayBarrier(circ) - 1)

\* C8: in decoupling mode the scheduler phase run alone, without noise,
\* leaves every data qubit at the value it entered with, whatever that
\* value; the phase holds exactly two X gates per data qubit and nothing
\* else on it but delays.
DecouplingIsIdentity ==
  (phase = "scheduler" /\ cfg.use_dd) =>
    /\ PhaseDone => regs.data = entry
    /\ \A q \in DataQubits :
         /\ Cardinality(Positions(SchedulerSlice(ops),
              LAMBDA o : o.kind = "x" /\ o.q = q)) = 2
         /\ \A i \in 1 .. Len(SchedulerSlice(ops)) :
              TouchesData(SchedulerSlice(ops)[i], q) =>
                SchedulerSlice(ops)[i].kind \in {"x", "delay"}

\* C8 witness: the decoupling phase has finished on data qubits that
\* entered holding 0, 1 and 0.
DecouplingIsIdentityWitness ==
  /\ phase = "scheduler" /\ cfg.use_dd /\ PhaseDone
  /\ entry = [q \in DataQubits |-> IF q = 1 THEN 1 ELSE 0]
  /\ regs.data = entry

\* C9: two runs of the syndrome-extraction phase that start from the two
\* logical values with the same set of flipped data qubits measure the
\* same syndrome, and the parity-check CX gates leave the data qubits as
\* they were.
SyndromeIndependentOfLogicalValue ==
  phase = "extractor" =>
    /\ regs.data = entry
    /\ twin.data = [q \in DataQubits |-> 1 - entry[q]]
    /\ PhaseDone => regs.syn = twin.syn

\* C9 witness: extraction has finished on the pair of runs with data qubit
\* 0 flipped; both read syndrome 1 though their data differ in every bit.
SyndromeIndependentOfLogicalValueWitness ==
  /\ phase = "extractor" /\ PhaseDone
  /\ flips = {0}
  /\ SynValue(regs) = 1 /\ SynValue(twin) = 1
  /\ \A q \in DataQubits : regs.data[q] # twin.data[q]

\* C10: for both values of use_dd, build_velocity_circuit(use_dd) and
\* build_endurance_circuit(use_dd, delay_dt=700) return the same operation
\* sequence, barrier labels and delay durations included.
LineEqualsStarAt700 ==
  (phase = "whole" /\ result = "circuit") =>
    /\ cfg.topology = "line" =>
         ops = EnduranceOps(cfg.use_dd, VelocityDelay)
    /\ (cfg.topology = "star" /\ cfg.delay_dt = VelocityDelay) =>
         ops = VelocityOps(cfg.use_dd)

\* C10 witness: the star circuit with decoupling at delay 700 has been
\* built; its delay barrier carries the label of the line circuit.
LineEqualsStarAt700Witness ==
  /\ phase = "whole" /\ result = "circuit"
  /\ cfg.topology = "star" /\ cfg.use_dd /\ cfg.delay_dt = VelocityDelay
  /\ ops[DelayBarrier(ops)].label = "DELAY_700dt"
  /\ ops[EncodeBarrier(ops) + 1].dur = VelocityHalf

\* the value held by at least two of the three data qubits
Majority(d) == IF d[0] + d[1] + d[2] >= 2 THEN 1 ELSE 0

\* C11: for every subset of data qubits flipped in the delay window, the
\* data qubits leave the window holding 1 with the flipped ones
\* complemented and keep these values through extraction; after the
\* conditional corrections the three output bits all equal the majority
\* of those values, so two or three flips read out as 000.
MajorityVote ==
  (phase = "whole" /\ result = "circuit") =>
    /\ (pc > DelayBarrier(ops) /\ pc <= SyndromeBarrier(ops) + 1) =>
         regs.data = Encoded(1, flips)
    /\ Done =>
         /\ \A q \in DataQubits : regs.out[q] = Majority(Encoded(1, flips))
         /\ regs.data = regs.out
         /\ Cardinality(flips) >= 2 => regs.out = [q \in DataQubits |-> 0]

\* C11 witness: a finished run in which data qubits 0 and 2 were flipped;
\* the syndrome is 3, the X lands on qubit 1 and the output is 000.
MajorityVoteWitness ==
  /\ phase = "whole" /\ Done
  /\ flips = {0, 2}
  /\ SynValue(regs) = 3
  /\ CorrectedQubits = {1}
  /\ regs.out = [q \in DataQubits |-> 0]

====
